---- MODULE Spec2Model ----
(***************************************************************************)
(* State-machine model of bot.py: the collectible-card economy behind the  *)
(* slash commands /karte, /shop, /coins_add, /coins_set and /trade.        *)
(*                                                                         *)
(* The persistent store is the SQLite database; its tables users,          *)
(* user_cards and trades are the shared state.  Every command handler is   *)
(* an asyncio coroutine: it runs on one event loop and yields at every     *)
(* `await`.  Each helper opens its own connection and commits once, so a   *)
(* helper's statements between its first write and its commit form one     *)
(* atomic step; the gaps between helpers (and between the SELECT and the   *)
(* INSERT of add_to_inventory, where no write transaction is open yet)     *)
(* are points where another handler's steps can be interleaved.  A handler *)
(* instance is a slot of Procs holding its position and its locals.        *)
(***************************************************************************)
EXTENDS Integers, Sequences, FiniteSets, TLC

VARIABLES
    users,       \* table users: user_id -> [last_pull_ts, coins]; absent = no row
    user_cards,  \* table user_cards: <<user_id, card_id>> -> qty; absent = no row
    trades,      \* table trades: trade_id (1..Len) -> row
    now,         \* int(time.time())
    loc,         \* per handler instance: position (pc) and local variables
    reply        \* what the step just taken answered to its interaction, if anything

vars == <<users, user_cards, trades, now, loc, reply>>

-----------------------------------------------------------------------------
(* Bounds of the model *)

MaxTrades == 1       \* rows ever inserted into trades
MaxQtyArg == 2       \* largest quantity typed into /trade
MaxCards == 2        \* /karte and /shop start while fewer cards are out
MaxCoins == 10       \* /coins_add and /coins_set leave at most this balance
MaxTicks == 2        \* clock advances
StartNow == 1700000000  \* epoch seconds at the first command

Users == {1, 2}                  \* accounts
Procs == {1, 2}                  \* handler instances that can be in flight together
QtyArgs == (-1)..MaxQtyArg       \* deine_menge / seine_menge are plain ints
CoinArgs == {-1, 0, 10}          \* amount / value typed by an admin

-----------------------------------------------------------------------------
(* Program constants *)

PULL_COOLDOWN_SECONDS == 5 * 60 * 60
DUPLICATE_COINS == 5
DAILY_DUPLICATE_COINS == 2
SHOP_PRICE == 10

\* DEFAULT_WEIGHTS, doubled to stay in the integers (Legendary is 0.5).
DEFAULT_WEIGHTS ==
    ("Common" :> 150) @@ ("Rare" :> 50) @@ ("Ultra Rare" :> 6) @@ ("Legendary" :> 1)

\* Table cards as loaded from cards.json: card id -> rarity.  The catalog is
\* read-only at run time.  This one has no Rare and no Ultra Rare card, so a
\* draw of those classes finds an empty pool.
cards == ("c1" :> "Common") @@ ("c2" :> "Legendary")

CardIds == DOMAIN cards
NoCard == "none"

-----------------------------------------------------------------------------
(* SQL statements and helpers as operators on table values *)

Restrict(f, S) == [x \in S |-> f[x]]

\* user_has_card_qty: bool(row and row[0] >= qty)
user_has_card_qty(uc, user_id, card_id, qty) ==
    /\ <<user_id, card_id>> \in DOMAIN uc
    /\ uc[<<user_id, card_id>>] >= qty

\* UPDATE user_cards SET qty = qty - ? WHERE user_id = ? AND card_id = ? AND qty >= ?
DeductQty(uc, user_id, card_id, qty) ==
    LET k == <<user_id, card_id>>
    IN  IF k \in DOMAIN uc /\ uc[k] >= qty THEN [uc EXCEPT ![k] = @ - qty] ELSE uc

\* DELETE FROM user_cards WHERE user_id = ? AND card_id = ? AND qty <= 0
DeleteEmpty(uc, user_id, card_id) ==
    LET k == <<user_id, card_id>>
    IN  IF k \in DOMAIN uc /\ uc[k] <= 0 THEN Restrict(uc, DOMAIN uc \ {k}) ELSE uc

\* INSERT INTO user_cards VALUES (?, ?, qty) ON CONFLICT DO UPDATE SET qty = qty + qty
UpsertQty(uc, user_id, card_id, qty) ==
    LET k == <<user_id, card_id>>
    IN  IF k \in DOMAIN uc THEN [uc EXCEPT ![k] = @ + qty] ELSE uc @@ (k :> qty)

\* A transfer without the DELETE: a row deducted to 0 stays.
transfer_card_KeepEmpty(uc, user_from, user_to, card_id, qty) ==
    UpsertQty(DeductQty(uc, user_from, card_id, qty), user_to, card_id, qty)

\* A transfer whose INSERT replaces the receiver's quantity instead of adding to it.
transfer_card_Overwrite(uc, user_from, user_to, card_id, qty) ==
    LET deducted == DeleteEmpty(DeductQty(uc, user_from, card_id, qty), user_from, card_id)
        k == <<user_to, card_id>>
    IN  IF k \in DOMAIN deducted THEN [deducted EXCEPT ![k] = qty]
        ELSE deducted @@ (k :> qty)

\* transfer_card: the three statements in one transaction
transfer_card(uc, user_from, user_to, card_id, qty) ==
    UpsertQty(DeleteEmpty(DeductQty(uc, user_from, card_id, qty), user_from, card_id),
              user_to, card_id, qty)

\* Quantity of card_id that user_id holds (0 without a row).
Held(uc, user_id, card_id) ==
    IF <<user_id, card_id>> \in DOMAIN uc THEN uc[<<user_id, card_id>>] ELSE 0

RECURSIVE SumHeld(_, _, _)
SumHeld(uc, S, card_id) ==
    IF S = {} THEN 0
    ELSE LET u == CHOOSE x \in S : TRUE
         IN  Held(uc, u, card_id) + SumHeld(uc, S \ {u}, card_id)

\* A table without rows.
EmptyTable == [k \in {} |-> 0]

Max(a, b) == IF a >= b THEN a ELSE b

\* get_coins: the coins column, 0 without a row (the column is never NULL:
\* every insert sets it or takes its default 0)
get_coins(us, user_id) == IF user_id \in DOMAIN us THEN us[user_id].coins ELSE 0

\* A grant that replaces the balance of an existing account.
add_coins_Replace(us, user_id, amount) ==
    IF user_id \in DOMAIN us
    THEN [us EXCEPT ![user_id].coins = amount]
    ELSE us @@ (user_id :> [last_pull_ts |-> 0, coins |-> amount])

\* add_coins: INSERT INTO users(user_id, coins) ... ON CONFLICT DO UPDATE
\* SET coins = COALESCE(coins,0) + amount
add_coins(us, user_id, amount) ==
    IF user_id \in DOMAIN us
    THEN [us EXCEPT ![user_id].coins = @ + amount]
    ELSE us @@ (user_id :> [last_pull_ts |-> 0, coins |-> amount])

\* set_coins: INSERT ... ON CONFLICT DO UPDATE SET coins = value
set_coins(us, user_id, value) ==
    IF user_id \in DOMAIN us
    THEN [us EXCEPT ![user_id].coins = value]
    ELSE us @@ (user_id :> [last_pull_ts |-> 0, coins |-> value])

\* A spend that forgets the balance condition.
SpendCoinsUnchecked(us, user_id) ==
    IF user_id \in DOMAIN us
    THEN [us EXCEPT ![user_id].coins = @ - SHOP_PRICE]
    ELSE us

\* shop: UPDATE users SET coins = COALESCE(coins,0) - 10
\*       WHERE user_id = ? AND COALESCE(coins,0) >= 10
SpendCoins(us, user_id) ==
    IF user_id \in DOMAIN us /\ us[user_id].coins >= SHOP_PRICE
    THEN [us EXCEPT ![user_id].coins = @ - SHOP_PRICE]
    ELSE us

\* get_time_left: last_ts = row[0] if row else 0
last_pull_ts(us, user_id) == IF user_id \in DOMAIN us THEN us[user_id].last_pull_ts ELSE 0

\* A cooldown that does not run down: the full duration until it is over.
get_time_left_Flat(us, user_id, t) ==
    IF t - last_pull_ts(us, user_id) < PULL_COOLDOWN_SECONDS
    THEN PULL_COOLDOWN_SECONDS
    ELSE 0

\* get_time_left, with t the int(time.time()) it reads
get_time_left(us, user_id, t) ==
    LET last_ts == IF user_id \in DOMAIN us THEN us[user_id].last_pull_ts ELSE 0
        left == PULL_COOLDOWN_SECONDS - Max(0, t - last_ts)
    IN  Max(0, left)

\* A mark_pulled that replaces the whole row, so that coins falls back to its
\* default.
mark_pulled_ReplaceRow(us, user_id, t) ==
    IF user_id \in DOMAIN us
    THEN [us EXCEPT ![user_id] = [last_pull_ts |-> t, coins |-> 0]]
    ELSE us @@ (user_id :> [last_pull_ts |-> t, coins |-> 0])

\* mark_pulled: INSERT INTO users(user_id, last_pull_ts) ... ON CONFLICT DO UPDATE
\* SET last_pull_ts = excluded.last_pull_ts
mark_pulled(us, user_id, t) ==
    IF user_id \in DOMAIN us
    THEN [us EXCEPT ![user_id].last_pull_ts = t]
    ELSE us @@ (user_id :> [last_pull_ts |-> t, coins |-> 0])

\* pick_rarity: random.choices over rarity_weights returns a class of positive weight
pick_rarity == {r \in DOMAIN DEFAULT_WEIGHTS : DEFAULT_WEIGHTS[r] > 0}

\* pick_random_card_for_rarity: the rows random.choice draws from; empty = None
pick_random_card_for_rarity(rarity) == {c \in CardIds : cards[c] = rarity}

-----------------------------------------------------------------------------
(* Handler instances *)

NoReq == [to_user |-> 0, from_card_id |-> NoCard, to_card_id |-> NoCard,
          qty_from |-> 0, qty_to |-> 0]

\* A slot that runs no handler.
Fresh == [op |-> "none", pc |-> "idle", user |-> 0, tid |-> 0, req |-> NoReq,
          card |-> NoCard, duplicate |-> FALSE, coins |-> 0, t_check |-> 0,
          charged |-> FALSE, leg1 |-> FALSE, leg2 |-> FALSE]

\* A handler begins: its locals start from scratch.
Begin(op, user) == [Fresh EXCEPT !.op = op, !.user = user]

\* No answer is sent by a step that leaves its handler running.
NoReply == [op |-> "none", res |-> "none", user |-> 0, n |-> 0]

\* The answer of handler op, run for user, with outcome res (n: a number shown
\* in it, 0 if none).
Reply(op, user, res, n) == [op |-> op, res |-> res, user |-> user, n |-> n]

\* The slot used when no two handlers overlap.
OneAtATime == {1}

Idle(p) == loc[p].pc = "idle"

\* The handler in slot p goes on, with locals l.
Continue(p, l) ==
    /\ loc' = [loc EXCEPT ![p] = l]
    /\ reply' = NoReply

\* The handler in slot p answers and returns; the slot is free again.
Answer(p, res, n) ==
    /\ loc' = [loc EXCEPT ![p] = Fresh]
    /\ reply' = Reply(loc[p].op, loc[p].user, res, n)

\* The same for a handler that answers in the step it begins with.
Reject(p, op, user, res, n) ==
    /\ loc' = [loc EXCEPT ![p] = Fresh]
    /\ reply' = Reply(op, user, res, n)

-----------------------------------------------------------------------------
(* /trade: trade_start *)

InTradeStart == {p \in Procs : loc[p].op = "trade_start"}

\* The command arrives; self-trade check and the proposer's ownership check.
TradeStart(p, me, user, deine_karte, seine_karte, deine_menge, seine_menge) ==
    /\ Idle(p)
    /\ Len(trades) + Cardinality(InTradeStart) < MaxTrades
    /\ IF user = me
       THEN Reject(p, "trade_start", me, "self_trade", 0)
       ELSE IF ~user_has_card_qty(user_cards, me, deine_karte, deine_menge)
       THEN Reject(p, "trade_start", me, "insufficient_own", 0)
       ELSE Continue(p, [Begin("trade_start", me) EXCEPT
                !.pc = "ts_check_partner",
                !.req = [to_user |-> user, from_card_id |-> deine_karte,
                         to_card_id |-> seine_karte, qty_from |-> deine_menge,
                         qty_to |-> seine_menge]])
    /\ UNCHANGED <<users, user_cards, trades, now>>

\* A /trade that does not look at the counterparty's holding.
TradeCheckPartnerSkipped(p) ==
    /\ loc[p].pc = "ts_check_partner"
    /\ Continue(p, [loc[p] EXCEPT !.pc = "ts_insert"])
    /\ UNCHANGED <<users, user_cards, trades, now>>

\* The counterparty's ownership check.
TradeCheckPartner(p) ==
    /\ loc[p].pc = "ts_check_partner"
    /\ LET r == loc[p].req
       IN  IF ~user_has_card_qty(user_cards, r.to_user, r.to_card_id, r.qty_to)
           THEN Answer(p, "insufficient_partner", 0)
           ELSE Continue(p, [loc[p] EXCEPT !.pc = "ts_insert"])
    /\ UNCHANGED <<users, user_cards, trades, now>>

\* INSERT INTO trades(...): status defaults to 'pending', the id is the next rowid.
\* (The two name lookups before it only read the catalog; created_ts is never read.)
NewTrade(me, r) ==
    [from_user |-> me, to_user |-> r.to_user, from_card_id |-> r.from_card_id,
     to_card_id |-> r.to_card_id, qty_from |-> r.qty_from, qty_to |-> r.qty_to,
     status |-> "pending"]

TradeInsert(p) ==
    /\ loc[p].pc = "ts_insert"
    /\ trades' = Append(trades, NewTrade(loc[p].user, loc[p].req))
    /\ Answer(p, "created", Len(trades) + 1)
    /\ UNCHANGED <<users, user_cards, now>>

-----------------------------------------------------------------------------
(* TradeView.accept_btn.  The view exists only for an inserted trade, so the  *)
(* trade id is one of the table; the columns other than status never change, *)
(* so the handler's copy of them equals the row.                             *)

\* An Accept that either party of the trade may press.
AcceptBeginAnyParty(p, actor, trade_id) ==
    /\ Idle(p)
    /\ trade_id \in DOMAIN trades
    /\ LET t == trades[trade_id]
       IN  IF actor \notin {t.from_user, t.to_user}
           THEN Reject(p, "accept", actor, "wrong_actor", trade_id)
           ELSE IF t.status # "pending"
           THEN Reject(p, "accept", actor, "not_pending", trade_id)
           ELSE Continue(p, [Begin("accept", actor) EXCEPT
                    !.pc = "acc_check_from", !.tid = trade_id])
    /\ UNCHANGED <<users, user_cards, trades, now>>

\* get_trade, then the actor and status checks.
AcceptBegin(p, actor, trade_id) ==
    /\ Idle(p)
    /\ trade_id \in DOMAIN trades
    /\ LET t == trades[trade_id]
       IN  IF actor # t.to_user
           THEN Reject(p, "accept", actor, "wrong_actor", trade_id)
           ELSE IF t.status # "pending"
           THEN Reject(p, "accept", actor, "not_pending", trade_id)
           ELSE Continue(p, [Begin("accept", actor) EXCEPT
                    !.pc = "acc_check_from", !.tid = trade_id])
    /\ UNCHANGED <<users, user_cards, trades, now>>

AcceptCheckFrom(p) ==
    /\ loc[p].pc = "acc_check_from"
    /\ LET t == trades[loc[p].tid]
       IN  IF ~user_has_card_qty(user_cards, t.from_user, t.from_card_id, t.qty_from)
           THEN Answer(p, "insufficient_from", loc[p].tid)
           ELSE Continue(p, [loc[p] EXCEPT !.pc = "acc_check_to"])
    /\ UNCHANGED <<users, user_cards, trades, now>>

\* An Accept that does not look at the counterparty's holding.
AcceptCheckToSkipped(p) ==
    /\ loc[p].pc = "acc_check_to"
    /\ Continue(p, [loc[p] EXCEPT !.pc = "acc_transfer1"])
    /\ UNCHANGED <<users, user_cards, trades, now>>

AcceptCheckTo(p) ==
    /\ loc[p].pc = "acc_check_to"
    /\ LET t == trades[loc[p].tid]
       IN  IF ~user_has_card_qty(user_cards, t.to_user, t.to_card_id, t.qty_to)
           THEN Answer(p, "insufficient_to", loc[p].tid)
           ELSE Continue(p, [loc[p] EXCEPT !.pc = "acc_transfer1"])
    /\ UNCHANGED <<users, user_cards, trades, now>>

\* transfer_card(from_user, to_user, from_card_id, qty_from); leg1 notes whether
\* its UPDATE found the quantity to deduct.
AcceptTransfer1(p) ==
    /\ loc[p].pc = "acc_transfer1"
    /\ LET t == trades[loc[p].tid]
       IN  /\ user_cards' = transfer_card(user_cards, t.from_user, t.to_user,
                                          t.from_card_id, t.qty_from)
           /\ Continue(p, [loc[p] EXCEPT !.pc = "acc_transfer2",
                    !.leg1 = user_has_card_qty(user_cards, t.from_user,
                                               t.from_card_id, t.qty_from)])
    /\ UNCHANGED <<users, trades, now>>

\* transfer_card(to_user, from_user, to_card_id, qty_to)
AcceptTransfer2(p) ==
    /\ loc[p].pc = "acc_transfer2"
    /\ LET t == trades[loc[p].tid]
       IN  /\ user_cards' = transfer_card(user_cards, t.to_user, t.from_user,
                                          t.to_card_id, t.qty_to)
           /\ Continue(p, [loc[p] EXCEPT !.pc = "acc_done",
                    !.leg2 = user_has_card_qty(user_cards, t.to_user,
                                               t.to_card_id, t.qty_to)])
    /\ UNCHANGED <<users, trades, now>>

\* UPDATE trades SET status = ? WHERE trade_id = ?
SetStatus(tr, trade_id, status) == [tr EXCEPT ![trade_id].status = status]

AcceptMarkDone(p) ==
    /\ loc[p].pc = "acc_done"
    /\ trades' = SetStatus(trades, loc[p].tid, "done")
    /\ Answer(p, "done", loc[p].tid)
    /\ UNCHANGED <<users, user_cards, now>>

-----------------------------------------------------------------------------
(* TradeView.cancel_btn *)

\* A Cancel that anyone may press.
CancelBeginAnyone(p, actor, trade_id) ==
    /\ Idle(p)
    /\ trade_id \in DOMAIN trades
    /\ Continue(p, [Begin("cancel", actor) EXCEPT !.pc = "can_update", !.tid = trade_id])
    /\ UNCHANGED <<users, user_cards, trades, now>>

\* get_trade, then the actor check.
CancelBegin(p, actor, trade_id) ==
    /\ Idle(p)
    /\ trade_id \in DOMAIN trades
    /\ LET t == trades[trade_id]
       IN  IF actor \notin {t.from_user, t.to_user}
           THEN Reject(p, "cancel", actor, "wrong_actor", trade_id)
           ELSE Continue(p, [Begin("cancel", actor) EXCEPT
                    !.pc = "can_update", !.tid = trade_id])
    /\ UNCHANGED <<users, user_cards, trades, now>>

CancelUpdate(p) ==
    /\ loc[p].pc = "can_update"
    /\ trades' = SetStatus(trades, loc[p].tid, "cancelled")
    /\ Answer(p, "cancelled", loc[p].tid)
    /\ UNCHANGED <<users, user_cards, now>>

-----------------------------------------------------------------------------
(* The trade protocol on its own, started from a store in which cards have   *)
(* already been drawn.                                                       *)

\* Account 1 has drawn c1 twice; account 2 has drawn c1 and c2 once each.
TradeHoldings == (<<1, "c1">> :> 2) @@ (<<2, "c1">> :> 1) @@ (<<2, "c2">> :> 1)

InitTrade ==
    /\ users = (1 :> [last_pull_ts |-> StartNow, coins |-> 0])
                @@ (2 :> [last_pull_ts |-> StartNow, coins |-> 0])
    /\ user_cards = TradeHoldings
    /\ trades = <<>>
    /\ now = StartNow
    /\ loc = [p \in Procs |-> Fresh]
    /\ reply = NoReply

NextTrade ==
    \E p \in Procs :
        \/ \E me, user \in Users, dk, sk \in CardIds, dm, sm \in QtyArgs :
                TradeStart(p, me, user, dk, sk, dm, sm)
        \/ TradeCheckPartner(p)
        \/ TradeInsert(p)
        \/ \E actor \in Users, t \in 1..MaxTrades : AcceptBegin(p, actor, t)
        \/ AcceptCheckFrom(p)
        \/ AcceptCheckTo(p)
        \/ AcceptTransfer1(p)
        \/ AcceptTransfer2(p)
        \/ AcceptMarkDone(p)
        \/ \E actor \in Users, t \in 1..MaxTrades : CancelBegin(p, actor, t)
        \/ CancelUpdate(p)

SpecTrade == InitTrade /\ [][NextTrade]_vars

-----------------------------------------------------------------------------
(* /trade with its buttons when no two handlers overlap *)

NextTradeSeq ==
    \E p \in OneAtATime :
        \/ \E me, user \in Users, dk, sk \in CardIds, dm, sm \in QtyArgs :
                TradeStart(p, me, user, dk, sk, dm, sm)
        \/ TradeCheckPartner(p)
        \/ TradeInsert(p)
        \/ \E actor \in Users, t \in 1..MaxTrades : AcceptBegin(p, actor, t)
        \/ AcceptCheckFrom(p)
        \/ AcceptCheckTo(p)
        \/ AcceptTransfer1(p)
        \/ AcceptTransfer2(p)
        \/ AcceptMarkDone(p)
        \/ \E actor \in Users, t \in 1..MaxTrades : CancelBegin(p, actor, t)
        \/ CancelUpdate(p)

SpecTradeSeq == InitTrade /\ [][NextTradeSeq]_vars

-----------------------------------------------------------------------------
(* The buttons of two pending trades.  Both were proposed on TradeHoldings:   *)
(* account 2 offers its c2 for a c1 of account 1, and account 1 offers a c1   *)
(* for the c2 of account 2.  Anyone who sees the message can press a button.  *)

SettleTrades ==
    << NewTrade(2, [to_user |-> 1, from_card_id |-> "c2", to_card_id |-> "c1",
                    qty_from |-> 1, qty_to |-> 1]),
       NewTrade(1, [to_user |-> 2, from_card_id |-> "c1", to_card_id |-> "c2",
                    qty_from |-> 1, qty_to |-> 1]) >>

\* interaction.user.id of a button press: the accounts and one that holds nothing
Actors == Users \cup {3}

InitSettle ==
    /\ users = (1 :> [last_pull_ts |-> StartNow, coins |-> 0])
                @@ (2 :> [last_pull_ts |-> StartNow, coins |-> 0])
    /\ user_cards = TradeHoldings
    /\ trades = SettleTrades
    /\ now = StartNow
    /\ loc = [p \in Procs |-> Fresh]
    /\ reply = NoReply

NextSettle ==
    \E p \in Procs :
        \/ \E actor \in Actors, t \in DOMAIN SettleTrades : AcceptBegin(p, actor, t)
        \/ AcceptCheckFrom(p)
        \/ AcceptCheckTo(p)
        \/ AcceptTransfer1(p)
        \/ AcceptTransfer2(p)
        \/ AcceptMarkDone(p)
        \/ \E actor \in Actors, t \in DOMAIN SettleTrades : CancelBegin(p, actor, t)
        \/ CancelUpdate(p)

SpecSettle == InitSettle /\ [][NextSettle]_vars

-----------------------------------------------------------------------------
(* /karte (daily_card) and /shop.  The draw (pick_rarity, then                *)
(* pick_random_card_for_rarity) reads only rarity_weights and cards, which    *)
(* no handler writes, so it is taken in the step of the statement before it.  *)
(* The balance read for the footer of the answer changes nothing and is not a *)
(* step of its own.                                                           *)

\* Cards held by all accounts together, plus the draws in flight.
CardsOut ==
    SumHeld(user_cards, Users, "c1") + SumHeld(user_cards, Users, "c2")
        + Cardinality({p \in Procs : loc[p].op \in {"daily", "shop"}})

\* A /karte that is still on cooldown in the second in which the duration is over.
DailyStartLate(p, user_id) ==
    /\ Idle(p)
    /\ CardsOut < MaxCards
    /\ LET left == get_time_left(users, user_id, now - 1)
       IN  IF left > 0
           THEN Reject(p, "daily", user_id, "cooldown", left)
           ELSE \E rarity \in pick_rarity :
                  IF pick_random_card_for_rarity(rarity) = {}
                  THEN Reject(p, "daily", user_id, "empty_pool", 0)
                  ELSE \E card_id \in pick_random_card_for_rarity(rarity) :
                         Continue(p, [Begin("daily", user_id) EXCEPT
                            !.pc = "add_select", !.card = card_id, !.t_check = now])
    /\ UNCHANGED <<users, user_cards, trades, now>>

\* A /karte that records the pull before it draws.
DailyStartMarkFirst(p, user_id) ==
    /\ Idle(p)
    /\ CardsOut < MaxCards
    /\ LET left == get_time_left(users, user_id, now)
       IN  IF left > 0
           THEN Reject(p, "daily", user_id, "cooldown", left) /\ users' = users
           ELSE \E rarity \in pick_rarity :
                  IF pick_random_card_for_rarity(rarity) = {}
                  THEN /\ Reject(p, "daily", user_id, "empty_pool", 0)
                       /\ users' = mark_pulled(users, user_id, now)
                  ELSE /\ users' = users
                       /\ \E card_id \in pick_random_card_for_rarity(rarity) :
                            Continue(p, [Begin("daily", user_id) EXCEPT
                              !.pc = "add_select", !.card = card_id, !.t_check = now])
    /\ UNCHANGED <<user_cards, trades, now>>

\* /karte arrives: the cooldown check, then the draw.
DailyStart(p, user_id) ==
    /\ Idle(p)
    /\ CardsOut < MaxCards
    /\ LET left == get_time_left(users, user_id, now)
       IN  IF left > 0
           THEN Reject(p, "daily", user_id, "cooldown", left)
           ELSE \E rarity \in pick_rarity :
                  IF pick_random_card_for_rarity(rarity) = {}
                  THEN Reject(p, "daily", user_id, "empty_pool", 0)
                  ELSE \E card_id \in pick_random_card_for_rarity(rarity) :
                         Continue(p, [Begin("daily", user_id) EXCEPT
                            !.pc = "add_select", !.card = card_id, !.t_check = now])
    /\ UNCHANGED <<users, user_cards, trades, now>>

\* A /shop that is refused while the account is on cooldown.
ShopStartOnCooldown(p, user_id) ==
    /\ Idle(p)
    /\ CardsOut < MaxCards
    /\ LET coins == get_coins(users, user_id)
           left == get_time_left(users, user_id, now)
       IN  IF left > 0
           THEN Reject(p, "shop", user_id, "cooldown", left)
           ELSE IF coins < SHOP_PRICE
           THEN Reject(p, "shop", user_id, "insufficient_coins", coins)
           ELSE Continue(p, [Begin("shop", user_id) EXCEPT
                    !.pc = "spend", !.coins = coins])
    /\ UNCHANGED <<user_cards, users, trades, now>>

\* /shop arrives: the price check on the balance read.
ShopStart(p, user_id) ==
    /\ Idle(p)
    /\ CardsOut < MaxCards
    /\ LET coins == get_coins(users, user_id)
       IN  IF coins < SHOP_PRICE
           THEN Reject(p, "shop", user_id, "insufficient_coins", coins)
           ELSE Continue(p, [Begin("shop", user_id) EXCEPT
                    !.pc = "spend", !.coins = coins])
    /\ UNCHANGED <<user_cards, users, trades, now>>

\* The conditional spend, then the draw; charged notes whether the UPDATE
\* found a row to change.
ShopSpend(p) ==
    /\ loc[p].pc = "spend"
    /\ users' = SpendCoins(users, loc[p].user)
    /\ \E rarity \in pick_rarity :
          IF pick_random_card_for_rarity(rarity) = {}
          THEN Answer(p, "empty_pool", 0)
          ELSE \E card_id \in pick_random_card_for_rarity(rarity) :
                 Continue(p, [loc[p] EXCEPT !.pc = "add_select", !.card = card_id,
                                 !.coins = 0, !.charged = (users' # users)])
    /\ UNCHANGED <<user_cards, trades, now>>

\* add_to_inventory, SELECT qty: duplicate = row is not None
AddSelect(p) ==
    /\ loc[p].pc = "add_select"
    /\ Continue(p, [loc[p] EXCEPT !.pc = "add_insert",
            !.duplicate = (<<loc[p].user, loc[p].card>> \in DOMAIN user_cards)])
    /\ UNCHANGED <<users, user_cards, trades, now>>

Outcome(l) == IF l.duplicate THEN "duplicate" ELSE "new"

\* add_to_inventory, INSERT ... ON CONFLICT DO UPDATE SET qty = qty + 1.  A shop
\* draw that is no duplicate is complete with it.
AddInsert(p) ==
    /\ loc[p].pc = "add_insert"
    /\ user_cards' = UpsertQty(user_cards, loc[p].user, loc[p].card, 1)
    /\ IF loc[p].op = "daily" THEN Continue(p, [loc[p] EXCEPT !.pc = "mark"])
       ELSE IF loc[p].duplicate THEN Continue(p, [loc[p] EXCEPT !.pc = "reward"])
       ELSE Answer(p, Outcome(loc[p]), 0)
    /\ UNCHANGED <<users, trades, now>>

\* A /karte that records the pull only for a card that is new.
DailyMarkNewOnly(p) ==
    /\ loc[p].pc = "mark"
    /\ users' = IF loc[p].duplicate THEN users ELSE mark_pulled(users, loc[p].user, now)
    /\ IF loc[p].duplicate THEN Continue(p, [loc[p] EXCEPT !.pc = "reward"])
       ELSE Answer(p, Outcome(loc[p]), 0)
    /\ UNCHANGED <<user_cards, trades, now>>

\* daily_card: mark_pulled.  A draw that is no duplicate is complete with it.
DailyMark(p) ==
    /\ loc[p].pc = "mark"
    /\ users' = mark_pulled(users, loc[p].user, now)
    /\ IF loc[p].duplicate THEN Continue(p, [loc[p] EXCEPT !.pc = "reward"])
       ELSE Answer(p, Outcome(loc[p]), 0)
    /\ UNCHANGED <<user_cards, trades, now>>

\* The coins a duplicate earns: daily_card passes the literal 2, shop the constant.
RewardOf(op) == IF op = "daily" THEN DAILY_DUPLICATE_COINS ELSE DUPLICATE_COINS

\* if duplicate: add_coins(...)
Reward(p) ==
    /\ loc[p].pc = "reward"
    /\ users' = add_coins(users, loc[p].user, RewardOf(loc[p].op))
    /\ Answer(p, Outcome(loc[p]), RewardOf(loc[p].op))
    /\ UNCHANGED <<user_cards, trades, now>>

-----------------------------------------------------------------------------
(* /coins_add and /coins_set: the checks read only the arguments and the one  *)
(* statement is atomic, so each is a single step.                             *)

coins_add(admin, user_id, amount) ==
    /\ IF ~admin THEN reply' = Reply("coins_add", user_id, "not_admin", 0) /\ users' = users
       ELSE IF amount = 0 THEN reply' = Reply("coins_add", user_id, "zero", 0) /\ users' = users
       ELSE IF amount < 0 THEN reply' = Reply("coins_add", user_id, "negative", 0) /\ users' = users
       ELSE /\ get_coins(users, user_id) + amount <= MaxCoins
            /\ users' = add_coins(users, user_id, amount)
            /\ reply' = Reply("coins_add", user_id, "added", amount)
    /\ UNCHANGED <<user_cards, trades, now, loc>>

coins_set(admin, user_id, value) ==
    /\ IF ~admin THEN reply' = Reply("coins_set", user_id, "not_admin", 0) /\ users' = users
       ELSE IF value < 0 THEN reply' = Reply("coins_set", user_id, "negative", 0) /\ users' = users
       ELSE /\ value <= MaxCoins
            /\ users' = set_coins(users, user_id, value)
            /\ reply' = Reply("coins_set", user_id, "set", value)
    /\ UNCHANGED <<user_cards, trades, now, loc>>

-----------------------------------------------------------------------------
(* The clock *)

TickSteps == {1, PULL_COOLDOWN_SECONDS - 1}

\* Clock advances so far (the two step sizes make the count unique).
Ticks ==
    LET e == now - StartNow
    IN  (e \div (PULL_COOLDOWN_SECONDS - 1)) + (e % (PULL_COOLDOWN_SECONDS - 1))

Tick(d) ==
    /\ Ticks < MaxTicks
    /\ now' = now + d
    /\ reply' = NoReply
    /\ UNCHANGED <<users, user_cards, trades, loc>>

-----------------------------------------------------------------------------
(* Cards and coins at one instant, from the store as init_db leaves it *)

InitEconomy ==
    /\ users = EmptyTable
    /\ user_cards = EmptyTable
    /\ trades = <<>>
    /\ now = StartNow
    /\ loc = [p \in Procs |-> Fresh]
    /\ reply = NoReply

NextEconomy ==
    \/ \E p \in Procs :
        \/ \E u \in Users : DailyStart(p, u)
        \/ \E u \in Users : ShopStart(p, u)
        \/ ShopSpend(p)
        \/ AddSelect(p)
        \/ AddInsert(p)
        \/ DailyMark(p)
        \/ Reward(p)
    \/ \E admin \in BOOLEAN, u \in Users, amount \in CoinArgs : coins_add(admin, u, amount)
    \/ \E admin \in BOOLEAN, u \in Users, value \in CoinArgs : coins_set(admin, u, value)

SpecEconomy == InitEconomy /\ [][NextEconomy]_vars

-----------------------------------------------------------------------------
(* /karte under a running clock *)

NextCooldown ==
    \/ \E p \in Procs :
        \/ \E u \in Users : DailyStart(p, u)
        \/ AddSelect(p)
        \/ AddInsert(p)
        \/ DailyMark(p)
        \/ Reward(p)
    \/ \E d \in TickSteps : Tick(d)

SpecCooldown == InitEconomy /\ [][NextCooldown]_vars

-----------------------------------------------------------------------------
(* /karte when no two commands overlap: every handler returns before the next *)
(* command arrives, so one slot runs them all.                                *)

NextCooldownSeq ==
    \/ \E p \in OneAtATime :
        \/ \E u \in Users : DailyStart(p, u)
        \/ AddSelect(p)
        \/ AddInsert(p)
        \/ DailyMark(p)
        \/ Reward(p)
    \/ \E d \in TickSteps : Tick(d)

SpecCooldownSeq == InitEconomy /\ [][NextCooldownSeq]_vars

-----------------------------------------------------------------------------
(* Properties of the trade protocol *)

\* Quantity of card_id held by all accounts together.
Total(uc, card_id) == SumHeld(uc, Users, card_id)

\* Every trade on record asks for positive quantities on both sides.
ValidTrades == \A t \in DOMAIN trades : trades[t].qty_from > 0 /\ trades[t].qty_to > 0

\* The claims C1, C3, C4 and C5 are stated for trades with positive quantities,
\* so that what refutes them does not rest on the missing validation of C10.

\* C1: trading conserves items: whatever Propose, Accept and Cancel calls have
\* run, in whatever interleaving, the quantity of each card held by all accounts
\* together is what it was before them.
C1_ItemsConserved ==
    ValidTrades => \A c \in CardIds : Total(user_cards, c) = Total(TradeHoldings, c)

\* The Accept instances on trade t that have passed the pending check and the
\* two ownership checks: each of them goes on to transfer and to answer Done.
Settling(t) ==
    {p \in Procs : /\ loc[p].op = "accept"
                   /\ loc[p].tid = t
                   /\ loc[p].pc \in {"acc_transfer1", "acc_transfer2", "acc_done"}}

\* C3: no double accept: of the Accept calls on one trade at most one settles it;
\* when one answers Done, no other is past the pending check (where the other
\* would have to get NotPendingError).
C3_SingleSettlement ==
    ValidTrades => \A t \in DOMAIN trades :
        /\ Cardinality(Settling(t)) <= 1
        /\ (reply.op = "accept" /\ reply.res = "done" /\ reply.n = t)
              => \A p \in Procs : ~(loc[p].op = "accept" /\ loc[p].tid = t)

\* C4: Accept is atomic across both legs: no state has the first leg of an
\* Accept committed and its second leg not, and an Accept marks the trade Done
\* only after both legs found the quantity they deduct.
C4_AcceptAtomic ==
    ValidTrades => \A p \in Procs :
        /\ loc[p].pc # "acc_transfer2"
        /\ loc[p].pc = "acc_done" => loc[p].leg1 /\ loc[p].leg2

\* C5: Done and Cancelled are terminal: no step changes the status of a trade
\* that is no longer Pending.
C5_TerminalStatus ==
    [][ValidTrades => \A t \in DOMAIN trades :
          trades[t].status # "pending" => trades'[t].status = trades[t].status]_vars

\* C9: every stored holding has a positive quantity.
C9_PositiveHoldings == \A k \in DOMAIN user_cards : user_cards[k] > 0

\* C10: a proposal with a non-positive quantity creates no trade record: every
\* trade on record offers and requests a positive quantity.
C10_NoNonPositiveTrade == ValidTrades

-----------------------------------------------------------------------------
(* Properties of cards and coins *)

Abs(n) == IF n >= 0 THEN n ELSE -n

\* The /karte instances for user_id that have passed the cooldown check and
\* drawn a card: each of them goes on to add it.
PastCooldown(user_id) == {p \in Procs : loc[p].op = "daily" /\ loc[p].user = user_id}

\* C2: of two Acquire calls for one account issued within one cooldown window,
\* at most one passes the cooldown check and commits: no two /karte instances for
\* one account are both past a cooldown check made less than a cooldown apart.
C2_OnePullPerWindow ==
    \A u \in Users : \A p, q \in PastCooldown(u) :
        p # q => Abs(loc[p].t_check - loc[q].t_check) >= PULL_COOLDOWN_SECONDS

\* C6: the stored balance of every account is never negative, whatever grants,
\* purchases, exact settings and duplicate rewards have run and however they
\* interleave.
C6_BalanceNonNegative == \A u \in DOMAIN users : users[u].coins >= 0

\* C6, its case: two purchases of one account both read a sufficient balance; one
\* spend took the price, the other then found too little and changed nothing.
C6_Witness ==
    \E p, q \in Procs :
        /\ p # q
        /\ loc[p].op = "shop" /\ loc[q].op = "shop" /\ loc[p].user = loc[q].user
        /\ loc[q].charged
        /\ loc[p].pc = "add_select" /\ ~loc[p].charged
        /\ get_coins(users, loc[p].user) < SHOP_PRICE

\* C7: every card a purchase grants is paid for: a /shop instance inserts its
\* card only if its own spend took the price from the balance.
C7_PurchasePaid ==
    [][\A p \in Procs :
          (loc[p].op = "shop" /\ loc[p].pc = "add_insert" /\ loc'[p].pc # "add_insert")
              => loc[p].charged]_vars

\* C8: a purchase that fails on an empty pool leaves no partial state: the step
\* that answers so changes no balance, holding or timestamp.
C8_NoPartialPurchase ==
    [][(reply'.op = "shop" /\ reply'.res = "empty_pool")
          => users' = users /\ user_cards' = user_cards]_vars

-----------------------------------------------------------------------------
(* Properties of /karte *)

\* The step taken is one of the /karte instance in slot p.
DailyRuns(p) == loc[p].op = "daily" /\ loc'[p] # loc[p]

\* The step taken is the arrival of a /karte of user_id: it either takes a slot
\* or answers at once.
DailyArrives(user_id) ==
    \/ \E p \in Procs : Idle(p) /\ loc'[p].op = "daily" /\ loc'[p].user = user_id
    \/ loc' = loc /\ reply'.op = "daily" /\ reply'.user = user_id

\* C11: duplicate detection and reward on Acquire: the flag is whether the
\* account held the card before the insert; the balance changes in no step of an
\* Acquire but the reward of a duplicate, and that reward is exactly
\* DuplicateReward (DUPLICATE_COINS, 5).
C11_DuplicateReward ==
    [][\A p \in Procs : DailyRuns(p) =>
          LET u == loc[p].user
              gain == get_coins(users', u) - get_coins(users, u)
          IN  /\ loc[p].pc = "add_select"
                    => loc'[p].duplicate = (Held(user_cards, u, loc[p].card) > 0)
              /\ loc[p].pc = "mark" /\ ~loc[p].duplicate => loc'[p].pc = "idle"
              /\ IF loc[p].pc = "reward"
                 THEN loc[p].duplicate /\ gain = DUPLICATE_COINS
                 ELSE gain = 0]_vars

\* C12: the cooldown failure path: an Acquire arriving less than the cooldown
\* after the last recorded acquisition answers CooldownError with
\* remaining = CooldownDuration - (now - lastAcquisitionTimestamp) and changes
\* no holding, balance, timestamp or trade.
C12_CooldownFailure ==
    [][\A u \in Users :
          LET since == now - last_pull_ts(users, u)
          IN  (DailyArrives(u) /\ since < PULL_COOLDOWN_SECONDS)
                  => /\ reply' = Reply("daily", u, "cooldown", PULL_COOLDOWN_SECONDS - since)
                     /\ loc' = loc
                     /\ UNCHANGED <<users, user_cards, trades>>]_vars

\* C12, its case: a /karte one second after the pull is told the cooldown less
\* that second.
C12_Witness ==
    \E u \in DOMAIN users :
        /\ reply = Reply("daily", u, "cooldown", PULL_COOLDOWN_SECONDS - 1)
        /\ now - users[u].last_pull_ts = 1

\* C13: the cooldown boundary: an Acquire in the second of the last recorded
\* acquisition answers CooldownError with the full duration; one arriving when
\* the duration has elapsed, or for an account without a timestamp, passes the
\* cooldown check.
C13_CooldownBoundary ==
    [][\A u \in Users :
          LET last == last_pull_ts(users, u)
          IN  DailyArrives(u) =>
                /\ (last = now) => reply' = Reply("daily", u, "cooldown", PULL_COOLDOWN_SECONDS)
                /\ (now - last >= PULL_COOLDOWN_SECONDS) => reply'.res # "cooldown"
                /\ (last = 0) => reply'.res # "cooldown"]_vars

\* C13, its case: a /karte has passed the check exactly one cooldown after the
\* account's recorded pull.
C13_Witness ==
    \E p \in Procs :
        /\ loc[p].op = "daily" /\ loc[p].pc = "add_select"
        /\ loc[p].user \in DOMAIN users
        /\ loc[p].t_check - users[loc[p].user].last_pull_ts = PULL_COOLDOWN_SECONDS

\* C14: an Acquire that fails on an empty pool changes nothing; the timestamp is
\* not updated, so a retry in the same second is not on cooldown.
C14_EmptyPoolKeepsCooldown ==
    [][\A u \in Users :
          reply' = Reply("daily", u, "empty_pool", 0)
              => /\ UNCHANGED <<users, user_cards, trades>>
                 /\ loc' = loc
                 /\ get_time_left(users', u, now') = 0]_vars

\* C14, its case: the draw of an account whose earlier pull is a cooldown old
\* found the pool of its class empty.
C14_Witness ==
    \E u \in DOMAIN users :
        /\ reply = Reply("daily", u, "empty_pool", 0)
        /\ users[u].last_pull_ts > 0
        /\ users[u].last_pull_ts < now

-----------------------------------------------------------------------------
(* Properties of Propose, Accept and Cancel, one call at a time *)

\* The step taken is one of the handler op in slot p.
Runs(p, op) == loc[p].op = op /\ loc'[p] # loc[p]

\* The step taken puts a handler op into the free slot p.
Starts(p, op) == Idle(p) /\ loc'[p].op = op

Parties(r) == {r.from_user, r.to_user}

\* C15: Accept re-validates ownership when it runs: if its check finds the
\* proposer with less than the offered quantity, or the counterparty with less
\* than the requested one, it answers InsufficientHoldingError and changes neither
\* the trade nor any holding.
C15_AcceptRevalidates ==
    [][\A p \in Procs : Runs(p, "accept") =>
          LET t == loc[p].tid
              r == trades[t]
          IN  /\ (loc[p].pc = "acc_check_from"
                    /\ Held(user_cards, r.from_user, r.from_card_id) < r.qty_from)
                  => /\ reply' = Reply("accept", loc[p].user, "insufficient_from", t)
                     /\ UNCHANGED <<user_cards, trades, users>>
              /\ (loc[p].pc = "acc_check_to"
                    /\ Held(user_cards, r.to_user, r.to_card_id) < r.qty_to)
                  => /\ reply' = Reply("accept", loc[p].user, "insufficient_to", t)
                     /\ UNCHANGED <<user_cards, trades, users>>]_vars

\* C15, its case: the first trade was settled and took the c2 the second trade
\* asks for; the Accept of the second is refused and the trade is still pending.
C15_Witness ==
    /\ Len(trades) = 2
    /\ trades[1].status = "done"
    /\ trades[2].status = "pending"
    /\ reply = Reply("accept", trades[2].to_user, "insufficient_to", 2)
    /\ Held(user_cards, trades[2].to_user, trades[2].to_card_id) = 0

\* The holdings the claims C16 and C17 describe after trade r is settled on the
\* holdings uc: each leg deducted from its giver and added to its receiver,
\* holdings of quantity 0 removed.
SettledHoldings(uc, r) ==
    LET leg1(u, c) == IF c # r.from_card_id THEN 0
                      ELSE IF u = r.from_user THEN 0 - r.qty_from
                      ELSE IF u = r.to_user THEN r.qty_from ELSE 0
        leg2(u, c) == IF c # r.to_card_id THEN 0
                      ELSE IF u = r.to_user THEN 0 - r.qty_to
                      ELSE IF u = r.from_user THEN r.qty_to ELSE 0
        q(k) == Held(uc, k[1], k[2]) + leg1(k[1], k[2]) + leg2(k[1], k[2])
    IN  [k \in {x \in Users \X CardIds : q(x) > 0} |-> q(k)]

\* The trade on record is the first one proposed on TradeHoldings, it asks for
\* positive quantities, and its Accept has just answered Done.
JustSettled(r) ==
    /\ trades = <<r>>
    /\ r.qty_from > 0 /\ r.qty_to > 0
    /\ reply = Reply("accept", r.to_user, "done", 1)

\* C16: effect of a successful Accept of a trade of two different cards, run
\* without interference: the offered quantity has moved from the proposer to the
\* counterparty, the requested one from the counterparty to the proposer,
\* holdings that reached 0 are gone, all other holdings are as before, and the
\* trade is Done.
C16_AcceptEffect ==
    \A t \in DOMAIN trades :
        (JustSettled(trades[t]) /\ trades[t].from_card_id # trades[t].to_card_id)
            => /\ user_cards = SettledHoldings(TradeHoldings, trades[t])
               /\ trades[t].status = "done"

\* C16, its case: the proposer held two of its card and gave one, the
\* counterparty gave its only copy of the other card and its holding is gone.
C16_Witness ==
    \E t \in DOMAIN trades :
        LET r == trades[t]
        IN  /\ JustSettled(r) /\ r.from_card_id # r.to_card_id
            /\ Held(TradeHoldings, r.from_user, r.from_card_id) = 2 /\ r.qty_from = 1
            /\ Held(TradeHoldings, r.to_user, r.to_card_id) = r.qty_to
            /\ <<r.to_user, r.to_card_id>> \notin DOMAIN user_cards

\* C17: a trade of a card against the same card: after a successful Accept the
\* proposer's holding has changed by requestedQty - offeredQty and the
\* counterparty's by offeredQty - requestedQty, the total of the card is what it
\* was and no holding is stored with a quantity of 0 or less.
C17_SameItemTrade ==
    \A t \in DOMAIN trades :
        LET r == trades[t]
            c == r.from_card_id
        IN  (JustSettled(r) /\ r.from_card_id = r.to_card_id)
              => /\ Held(user_cards, r.from_user, c)
                        = Held(TradeHoldings, r.from_user, c) + r.qty_to - r.qty_from
                 /\ Held(user_cards, r.to_user, c)
                        = Held(TradeHoldings, r.to_user, c) + r.qty_from - r.qty_to
                 /\ user_cards = SettledHoldings(TradeHoldings, r)
                 /\ Total(user_cards, c) = Total(TradeHoldings, c)
                 /\ \A k \in DOMAIN user_cards : user_cards[k] > 0

\* C17, its case: the proposer offered all it held of the card and asked for all
\* the counterparty held of it, in different quantities.
C17_Witness ==
    \E t \in DOMAIN trades :
        LET r == trades[t]
        IN  /\ JustSettled(r) /\ r.from_card_id = r.to_card_id
            /\ Held(TradeHoldings, r.from_user, r.from_card_id) = r.qty_from
            /\ Held(TradeHoldings, r.to_user, r.to_card_id) = r.qty_to
            /\ r.qty_from # r.qty_to

\* C18: Propose goes on past its checks only for two different accounts, a
\* proposer holding the offered quantity and a counterparty holding the requested
\* one; a Propose that answers a rejection creates no record; one that passed
\* the checks appends exactly one record, pending, with the parties, cards and
\* quantities given; no step of a Propose changes a holding.
C18_ProposeValidation ==
    [][/\ \A p \in Procs :
            LET me == loc'[p].user
                n == loc'[p].req
                r == loc[p].req
            IN  /\ Starts(p, "trade_start")
                      => /\ n.to_user # me
                         /\ Held(user_cards, me, n.from_card_id) >= n.qty_from
                /\ (loc[p].pc = "ts_check_partner" /\ loc'[p].pc = "ts_insert")
                      => Held(user_cards, r.to_user, r.to_card_id) >= r.qty_to
                /\ (loc[p].pc = "ts_insert" /\ loc'[p] # loc[p])
                      => /\ trades' = Append(trades,
                               [from_user |-> loc[p].user, to_user |-> r.to_user,
                                from_card_id |-> r.from_card_id,
                                to_card_id |-> r.to_card_id,
                                qty_from |-> r.qty_from, qty_to |-> r.qty_to,
                                status |-> "pending"])
                         /\ reply' = Reply("trade_start", loc[p].user, "created",
                                           Len(trades) + 1)
                /\ (Runs(p, "trade_start") \/ Starts(p, "trade_start"))
                      => user_cards' = user_cards
       /\ (reply'.op = "trade_start" /\ reply'.res # "created")
              => trades' = trades /\ user_cards' = user_cards
       /\ Len(trades') # Len(trades)
              => \E p \in Procs : loc[p].pc = "ts_insert" /\ loc'[p] # loc[p]]_vars

\* C18, its case: a proposal asking for more than the counterparty holds was
\* refused and no trade is on record.
C18_Witness ==
    \E u \in Users :
        /\ reply = Reply("trade_start", u, "insufficient_partner", 0)
        /\ trades = <<>>

\* C19: only the counterparty's Accept gets past the actor check: an Accept by
\* any other account, the proposer included, answers WrongActorError, whatever
\* the status, and changes neither the trade nor any holding.
C19_AcceptWrongActor ==
    [][\A a \in Actors, t \in DOMAIN trades :
          /\ reply' = Reply("accept", a, "wrong_actor", t)
                => /\ a # trades[t].to_user
                   /\ loc' = loc
                   /\ UNCHANGED <<trades, user_cards, users>>
          /\ (reply'.op = "accept" /\ reply'.user = a /\ reply'.n = t
                /\ a # trades[t].to_user) => reply'.res = "wrong_actor"
          /\ \A p \in Procs :
                (Idle(p) /\ loc'[p].op = "accept" /\ loc'[p].user = a /\ loc'[p].tid = t)
                    => a = trades[t].to_user]_vars

\* C19, its case: the proposer pressed Accept on its own pending trade.
C19_Witness ==
    \E t \in DOMAIN trades :
        /\ reply = Reply("accept", trades[t].from_user, "wrong_actor", t)
        /\ trades[t].status = "pending"

\* C20: Cancel gets past the actor check only for the proposer or the
\* counterparty; from any other account it is rejected and the trade is
\* unchanged; no step of a Cancel changes a holding or a balance.
C20_CancelFrame ==
    [][/\ \A a \in Actors, t \in DOMAIN trades :
            /\ reply' = Reply("cancel", a, "wrong_actor", t)
                  => /\ a \notin Parties(trades[t])
                     /\ loc' = loc
                     /\ trades' = trades
            /\ (reply'.op = "cancel" /\ reply'.user = a /\ reply'.n = t
                  /\ a \notin Parties(trades[t])) => reply'.res = "wrong_actor"
            /\ \A p \in Procs :
                  (Idle(p) /\ loc'[p].op = "cancel" /\ loc'[p].user = a /\ loc'[p].tid = t)
                      => a \in Parties(trades[t])
       /\ (reply'.op = "cancel" \/ \E p \in Procs : Runs(p, "cancel") \/ Starts(p, "cancel"))
              => UNCHANGED <<user_cards, users>>]_vars

\* C20, its case: an account that is no party of the trade pressed Cancel while
\* a party's Cancel was under way; the trade is still pending.
C20_Witness ==
    \E t \in DOMAIN trades, a \in Actors, p \in Procs :
        /\ a \notin Parties(trades[t])
        /\ reply = Reply("cancel", a, "wrong_actor", t)
        /\ trades[t].status = "pending"
        /\ loc[p].op = "cancel" /\ loc[p].tid = t

-----------------------------------------------------------------------------
(* /top: the two leaderboard queries.  They read user_cards and cards only.   *)

MaxRanked == 4       \* cards held by all accounts together when /top is asked
MaxLimit == 3        \* largest limit typed into /top

TOP_LIMIT_MAX == 25

\* A catalog with a card of every rarity class.
RankedCards == cards @@ ("c3" :> "Rare") @@ ("c4" :> "Ultra Rare")

LimitArgs == 0..MaxLimit

Min(a, b) == IF a <= b THEN a ELSE b

\* CASE c.rarity WHEN 'Legendary' THEN 10 WHEN 'Ultra Rare' THEN 5
\*               WHEN 'Rare' THEN 2 ELSE 1 END
RarityCase(rarity) ==
    IF rarity = "Legendary" THEN 10
    ELSE IF rarity = "Ultra Rare" THEN 5
    ELSE IF rarity = "Rare" THEN 2
    ELSE 1

\* The rows of user_cards of one account (GROUP BY uc.user_id), after the JOIN
\* with the catalog cat when there is one.
RowsOf(uc, user_id) == {k \in DOMAIN uc : k[1] = user_id}
JoinedRowsOf(uc, cat, user_id) == {k \in RowsOf(uc, user_id) : k[2] \in DOMAIN cat}

\* SUM(uc.qty) over the rows K
RECURSIVE SumQty(_, _)
SumQty(uc, K) ==
    IF K = {} THEN 0
    ELSE LET k == CHOOSE x \in K : TRUE
         IN  uc[k] + SumQty(uc, K \ {k})

\* SUM(uc.qty * CASE c.rarity ... END) over the rows K
RECURSIVE SumScore(_, _, _)
SumScore(uc, cat, K) ==
    IF K = {} THEN 0
    ELSE LET k == CHOOSE x \in K : TRUE
         IN  uc[k] * RarityCase(cat[k[2]]) + SumScore(uc, cat, K \ {k})

\* The accounts that own a row.
Grouped(uc) == {k[1] : k \in DOMAIN uc}

\* The grouped rows of the score query and of the count query.
ScoreRows(uc, cat) ==
    {[user_id |-> u,
      cards_total |-> SumQty(uc, JoinedRowsOf(uc, cat, u)),
      score |-> SumScore(uc, cat, JoinedRowsOf(uc, cat, u))] :
        u \in {x \in Grouped(uc) : JoinedRowsOf(uc, cat, x) # {}}}

CountRows(uc) ==
    {[user_id |-> u, cards_total |-> SumQty(uc, RowsOf(uc, u))] : u \in Grouped(uc)}

\* ORDER BY score DESC, cards_total DESC: a comes strictly before b
ScoreBefore(a, b) ==
    \/ a.score > b.score
    \/ a.score = b.score /\ a.cards_total > b.cards_total

\* ORDER BY cards_total DESC
CountBefore(a, b) == a.cards_total > b.cards_total

\* An order by the number of cards first, which is not the score query's.
CountThenScoreBefore(a, b) ==
    \/ a.cards_total > b.cards_total
    \/ a.cards_total = b.cards_total /\ a.score > b.score

\* The orders ORDER BY can return the rows S in, before being the pairs of rows
\* the first of which sorts strictly ahead of the second: rows that compare equal
\* come in any order.
Orderings(S, before) ==
    {f \in [1..Cardinality(S) -> S] :
        /\ \A i, j \in 1..Cardinality(S) : i # j => f[i] # f[j]
        /\ \A i, j \in 1..Cardinality(S) : i < j => <<f[j], f[i]>> \notin before}

\* LIMIT ?
Limit(rows, limit) == SubSeq(rows, 1, Min(limit, Len(rows)))

\* A score query that orders by the number of cards first.
get_collection_leaderboard_ByCount(uc, cat, limit) ==
    LET S == ScoreRows(uc, cat)
    IN  {Limit(f, limit) :
            f \in Orderings(S, {ab \in S \X S : CountThenScoreBefore(ab[1], ab[2])})}

\* get_collection_leaderboard: the results the query can return
get_collection_leaderboard(uc, cat, limit) ==
    LET S == ScoreRows(uc, cat)
    IN  {Limit(f, limit) : f \in Orderings(S, {ab \in S \X S : ScoreBefore(ab[1], ab[2])})}

\* get_cardcount_leaderboard: the results the query can return
get_cardcount_leaderboard(uc, limit) ==
    LET S == CountRows(uc)
    IN  {Limit(f, limit) : f \in Orderings(S, {ab \in S \X S : CountBefore(ab[1], ab[2])})}

\* /top: limit = max(1, min(25, limit)), then the two queries.
top_leaderboard(limit_arg) ==
    LET limit == Max(1, Min(TOP_LIMIT_MAX, limit_arg))
    IN  /\ \E score_rows \in get_collection_leaderboard(user_cards, RankedCards, limit),
              count_rows \in get_cardcount_leaderboard(user_cards, limit) :
                reply' = [op |-> "top", res |-> "rows", user |-> 0, n |-> limit,
                          score_rows |-> score_rows, count_rows |-> count_rows]
        /\ UNCHANGED <<users, user_cards, trades, now, loc>>

\* The holdings made of n cards of the catalog cat, spread over the accounts A.
RECURSIVE HoldingsOf(_, _, _)
HoldingsOf(A, cat, n) ==
    IF n = 0 THEN {EmptyTable}
    ELSE {UpsertQty(h, u, c, 1) : h \in HoldingsOf(A, cat, n - 1), u \in A, c \in DOMAIN cat}

InitTop ==
    /\ users = EmptyTable
    /\ user_cards \in UNION {HoldingsOf(Actors, RankedCards, n) : n \in 0..MaxRanked}
    /\ trades = <<>>
    /\ now = StartNow
    /\ loc = [p \in Procs |-> Fresh]
    /\ reply = NoReply

NextTop == \E limit \in LimitArgs : top_leaderboard(limit)

SpecTop == InitTop /\ [][NextTop]_vars

\* The point values of the rarity classes.
RarityPoints(rarity) ==
    CASE rarity = "Common" -> 1
      [] rarity = "Rare" -> 2
      [] rarity = "Ultra Rare" -> 5
      [] rarity = "Legendary" -> 10

\* A row of the ranking states the account's total quantity and weighted score.
RowIsRight(row) ==
    /\ Held(user_cards, row.user_id, "c1") + Held(user_cards, row.user_id, "c2")
         + Held(user_cards, row.user_id, "c3") + Held(user_cards, row.user_id, "c4")
            = row.cards_total
    /\ Held(user_cards, row.user_id, "c1") * RarityPoints(RankedCards["c1"])
         + Held(user_cards, row.user_id, "c2") * RarityPoints(RankedCards["c2"])
         + Held(user_cards, row.user_id, "c3") * RarityPoints(RankedCards["c3"])
         + Held(user_cards, row.user_id, "c4") * RarityPoints(RankedCards["c4"])
            = row.score

\* In the ranking a stands at or above b.
RanksAtLeast(a, b) ==
    \/ a.score > b.score
    \/ a.score = b.score /\ a.cards_total >= b.cards_total

\* C21: ScoreRanking returns one row for every account with holdings, as far as
\* the limit allows, each with totalQuantity = sum of its quantities and
\* weightedScore = sum of quantity x rarityPoints; the rows are in descending
\* order of weightedScore, ties in descending order of totalQuantity; the rows
\* cut off by the limit rank no higher than those shown; the query changes no
\* state.
C21_ScoreRanking ==
    [][reply'.op = "top" =>
          LET rows == reply'.score_rows
              shown == {rows[i].user_id : i \in DOMAIN rows}
              holders == {u \in Actors : \E c \in DOMAIN RankedCards :
                                             Held(user_cards, u, c) > 0}
          IN  /\ \A i \in DOMAIN rows : rows[i].user_id \in holders /\ RowIsRight(rows[i])
              /\ \A i, j \in DOMAIN rows : i # j => rows[i].user_id # rows[j].user_id
              /\ Len(rows) = Min(reply'.n, Cardinality(holders))
              /\ \A i, j \in DOMAIN rows : i < j => RanksAtLeast(rows[i], rows[j])
              /\ \A u \in holders \ shown : \A i \in DOMAIN rows :
                    \A row \in ScoreRows(user_cards, RankedCards) :
                        row.user_id = u => RanksAtLeast(rows[i], row)
              /\ UNCHANGED <<users, user_cards, trades, now, loc>>]_vars

\* C21, its case: two accounts with the same score and different totals are
\* shown, the larger total first, and a third account is cut off by the limit.
C21_Witness ==
    /\ reply.op = "top"
    /\ Len(reply.score_rows) = 2
    /\ reply.score_rows[1].score = reply.score_rows[2].score
    /\ reply.score_rows[1].cards_total > reply.score_rows[2].cards_total
    /\ Cardinality(Grouped(user_cards)) = 3

-----------------------------------------------------------------------------
(* The admin commands on their own, with small grants *)

MaxGrant == 3        \* largest amount typed into /coins_add here

GrantArgs == (-1)..MaxGrant

NextLedger ==
    \/ \E admin \in BOOLEAN, u \in Users, amount \in GrantArgs : coins_add(admin, u, amount)
    \/ \E admin \in BOOLEAN, u \in Users, value \in CoinArgs : coins_set(admin, u, value)

SpecLedger == InitEconomy /\ [][NextLedger]_vars

\* C22: a Grant of a positive amount leaves the account with its previous
\* balance plus the amount, an account without a row counting as 0 and being
\* created by it; no other account changes; the balance read for an account
\* that was never created is 0.
C22_GrantAdds ==
    [][/\ \A u \in Users, amount \in GrantArgs :
            reply' = Reply("coins_add", u, "added", amount)
                => /\ amount > 0
                   /\ u \in DOMAIN users'
                   /\ users'[u].coins = (IF u \in DOMAIN users THEN users[u].coins ELSE 0)
                                            + amount
                   /\ get_coins(users', u) = users'[u].coins
                   /\ \A v \in Users \ {u} :
                         /\ v \in DOMAIN users' <=> v \in DOMAIN users
                         /\ v \in DOMAIN users => users'[v] = users[v]
       /\ \A u \in Users : u \notin DOMAIN users' => get_coins(users', u) = 0]_vars

\* C22, its case: a grant to an account with a positive balance, while the other
\* account has never been created.
C22_Witness ==
    \E u \in Users, amount \in GrantArgs :
        /\ reply = Reply("coins_add", u, "added", amount)
        /\ u \in DOMAIN users
        /\ users[u].coins > amount
        /\ DOMAIN users = {u}

-----------------------------------------------------------------------------
(* Properties of the draw *)

\* The accounts other than user_id are as they were: row for row in users and
\* in user_cards.
OthersUntouched(user_id) ==
    /\ \A v \in Users \ {user_id} :
          /\ v \in DOMAIN users' <=> v \in DOMAIN users
          /\ v \in DOMAIN users => users'[v] = users[v]
    /\ \A k \in (DOMAIN user_cards \cup DOMAIN user_cards') :
          k[1] # user_id => /\ k \in DOMAIN user_cards /\ k \in DOMAIN user_cards'
                            /\ user_cards'[k] = user_cards[k]

\* C23: a successful Acquire adds exactly 1 to the caller's holding of the drawn
\* card (creating it at 1) and none to its other holdings, then sets the
\* account's lastAcquisitionTimestamp to the time of that write whether or not
\* the card was a duplicate; no step of it changes another account's holdings,
\* balance or timestamp.
C23_AcquireEffect ==
    [][\A p \in Procs : DailyRuns(p) =>
          LET u == loc[p].user
              c == loc[p].card
          IN  /\ OthersUntouched(u)
              /\ loc[p].pc = "add_insert"
                    => /\ Held(user_cards', u, c) = Held(user_cards, u, c) + 1
                       /\ \A d \in CardIds \ {c} :
                             Held(user_cards', u, d) = Held(user_cards, u, d)
                       /\ <<u, c>> \in DOMAIN user_cards'
                       /\ loc'[p].pc = "mark"
              /\ loc[p].pc # "add_insert" => user_cards' = user_cards
              /\ loc[p].pc = "mark"
                    => /\ u \in DOMAIN users'
                       /\ users'[u].last_pull_ts = now
              /\ loc[p].pc # "mark" => last_pull_ts(users', u) = last_pull_ts(users, u)]_vars

\* C23, its case: a second card of the same kind was added to the account's
\* holding, on a later day, and the time of the pull recorded again.
C23_Witness ==
    \E p \in Procs :
        /\ loc[p].op = "daily" /\ loc[p].pc = "reward" /\ loc[p].duplicate
        /\ Held(user_cards, loc[p].user, loc[p].card) = 2
        /\ users[loc[p].user].last_pull_ts = now
        /\ now >= StartNow + PULL_COOLDOWN_SECONDS

\* The draws (of /karte or /shop) for one account and one card that have read
\* whether the account holds the card.
HasSelected(p) ==
    /\ loc[p].op \in {"daily", "shop"}
    /\ loc[p].pc \in {"add_insert", "mark", "reward"}

\* C24: the duplicate flag under concurrency: of a /karte and a paid /shop of one
\* account that draw the same card at the same time, at most one takes the card
\* for new (isDuplicate = false); the other is a duplicate and earns the reward.
C24_OneFirstCopy ==
    \A p, q \in Procs :
        (/\ HasSelected(p) /\ HasSelected(q)
         /\ loc[p].op = "daily" /\ loc[q].op = "shop" /\ loc[q].charged
         /\ loc[p].user = loc[q].user /\ loc[p].card = loc[q].card)
            => loc[p].duplicate \/ loc[q].duplicate

\* A step of a /shop: its arrival, or a step of its handler.
ShopStep ==
    \/ \E p \in Procs : Runs(p, "shop") \/ Starts(p, "shop")
    \/ loc' = loc /\ reply'.op = "shop"

\* C25: a purchase is independent of the cooldown: a /shop of an account that
\* has the price goes on to the spend however recently the account pulled, no
\* /shop answers with the cooldown, and no step of a /shop changes a
\* lastAcquisitionTimestamp.
C25_PurchaseIgnoresCooldown ==
    [][ShopStep =>
          /\ \A u \in Users : last_pull_ts(users', u) = last_pull_ts(users, u)
          /\ reply'.res # "cooldown"
          /\ \A u \in Users :
                (loc' = loc /\ reply'.op = "shop" /\ reply'.user = u)
                    => get_coins(users, u) < SHOP_PRICE]_vars

\* C25, its case: an account on cooldown has bought a card.
C25_Witness ==
    \E p \in Procs :
        /\ loc[p].op = "shop" /\ loc[p].pc = "add_insert" /\ loc[p].charged
        /\ get_time_left(users, loc[p].user, now) > 0

-----------------------------------------------------------------------------
(* All commands together at one instant, from the empty store: one /karte,    *)
(* /shop or trade handler at a time, /trade with its quantities left at their *)
(* default, and the admin commands, each a single step, in between.           *)

\* deine_menge: int = 1, seine_menge: int = 1
DefaultQty == {1}

\* /coins_add with the price of one purchase, /coins_set back to nothing.
PriceArgs == {SHOP_PRICE}
ResetArgs == {0}

\* The member who runs /trade; either member answers it.
Proposers == {1}

NextAllSeq ==
    \/ \E p \in OneAtATime :
        \/ \E u \in Users : DailyStart(p, u)
        \/ \E u \in Users : ShopStart(p, u)
        \/ ShopSpend(p)
        \/ AddSelect(p)
        \/ AddInsert(p)
        \/ DailyMark(p)
        \/ Reward(p)
        \/ \E me \in Proposers, user \in Users, dk, sk \in CardIds, dm, sm \in DefaultQty :
                TradeStart(p, me, user, dk, sk, dm, sm)
        \/ TradeCheckPartner(p)
        \/ TradeInsert(p)
        \/ \E actor \in Users, t \in 1..MaxTrades : AcceptBegin(p, actor, t)
        \/ AcceptCheckFrom(p)
        \/ AcceptCheckTo(p)
        \/ AcceptTransfer1(p)
        \/ AcceptTransfer2(p)
        \/ AcceptMarkDone(p)
        \/ \E actor \in Users, t \in 1..MaxTrades : CancelBegin(p, actor, t)
        \/ CancelUpdate(p)
    \/ \E admin \in BOOLEAN, u \in Users, amount \in PriceArgs : coins_add(admin, u, amount)
    \/ \E admin \in BOOLEAN, u \in Users, value \in ResetArgs : coins_set(admin, u, value)

SpecAllSeq == InitEconomy /\ [][NextAllSeq]_vars

TradeOps == {"trade_start", "accept", "cancel"}

\* C26: the ledger fields are independent: no Grant (by an admin or as a
\* duplicate reward), SetExact or Spend changes a lastAcquisitionTimestamp;
\* recording the time of a pull changes no balance, and an account it creates
\* starts at balance 0; no step of Propose, Accept or Cancel changes a row of
\* the ledger.
C26_LedgerFieldsIndependent ==
    [][/\ (reply'.op \in {"coins_add", "coins_set"})
            => \A u \in Users : last_pull_ts(users', u) = last_pull_ts(users, u)
       /\ \A p \in Procs :
            /\ ((Runs(p, "shop") /\ loc[p].pc = "spend") \/ loc[p].pc = "reward")
                  /\ loc'[p] # loc[p]
                  => \A u \in Users : last_pull_ts(users', u) = last_pull_ts(users, u)
            /\ (Runs(p, "daily") /\ loc[p].pc = "mark")
                  => /\ \A u \in Users : get_coins(users', u) = get_coins(users, u)
                     /\ loc[p].user \notin DOMAIN users => users'[loc[p].user].coins = 0
            /\ (\E op \in TradeOps : Runs(p, op) \/ Starts(p, op)) => users' = users
       /\ reply'.op \in TradeOps => users' = users]_vars

\* C26, its case: an account with coins and a recorded pull has settled a trade.
C26_Witness ==
    \E u \in DOMAIN users :
        /\ users[u].coins > 0
        /\ users[u].last_pull_ts > 0
        /\ reply = Reply("accept", u, "done", 1)

====
